---- MODULE Spec2Model ----
(***************************************************************************)
(* The watch-synchronized Kubernetes controller of pilot                   *)
(* (platform/kube/controller.go): four informers (resource mirrors), one   *)
(* retrying task queue, one handler chain per mirror, the pod index and    *)
(* the service-catalog queries.                                            *)
(***************************************************************************)
EXTENDS Integers, Sequences, FiniteSets, TLC

\* ------------------------------------------------------------- bounds
\* tasks the mirrors push in one behaviour
MaxEvents == 2
\* callbacks the subscribers register, over both mirrors
MaxHandlers == 2

\* ---------------------------------------------------------- constants
\* the retry delay given without its unit: 1 ns, in whole seconds
RetryDelay_nounit == 1 \div 1000000000

\* NewQueue(1 * time.Second): the retry delay, in seconds
RetryDelay == 1

Kinds == {"svc", "ep", "pod", "node"}

Nil == [type |-> "nil"]

\* ------------------------------------------------------------ objects
\* the objects the watch source serves in the event machine
NamedSvc(name, ports, malformed) ==
  [type |-> "Service", ns |-> "default", name |-> name, ports |-> ports,
   malformed |-> malformed]

Svc(ports, malformed) == NamedSvc("a", ports, malformed)

NamedEp(name, subsets) ==
  [type |-> "Endpoints", ns |-> "default", name |-> name, subsets |-> subsets]

Ep(subsets) == NamedEp("a", subsets)

NamedPod(name, ip, labels) ==
  [type |-> "Pod", ns |-> "default", name |-> name, ip |-> ip, labels |-> labels,
   node |-> "n1", sa |-> "bar"]

Pod(ip, labels) == NamedPod("p", ip, labels)

Http == [name |-> "http", port |-> 80]
Grpc == [name |-> "grpc", port |-> 90]
Admin == [name |-> "admin", port |-> 15000]
HttpAlt == [name |-> "http", port |-> 8080]

\* no catalog query made yet
NoCall == [op |-> "none"]

Objs(k) ==
  CASE k = "svc" -> {Svc(<<Http>>, FALSE), Svc(<<Http, Grpc>>, FALSE)}
    [] k = "ep" -> {Ep(<<[addresses |-> <<"ip1">>, ports |-> <<Http>>]>>)}
    [] k = "pod" -> {Pod("ip1", [version |-> "v1"]),
                     Pod("ip1", [version |-> "v2"])}
    [] k = "node" -> {}

\* KeyFunc(name, namespace): the store key of an object
KeyFunc(name, namespace) == <<namespace, name>>

MetaNamespaceKeyFunc(obj) == KeyFunc(obj.name, obj.ns)

\* cache.DeletedFinalStateUnknown: what DeleteFunc receives when the deletion
\* was missed by the watch and found on relist
DeletedFinalStateUnknown(obj) ==
  [type |-> "DeletedFinalStateUnknown", Key |-> MetaNamespaceKeyFunc(obj),
   Obj |-> obj]

VARIABLES
  started,   \* the goroutines Controller.Run has launched
  stopped,   \* the stop channel is closed
  closing,   \* the queue consumer has observed the stop signal
  crashed,   \* a handler panicked: the process is gone
  synced,    \* informer.HasSynced() of each mirror
  store,     \* informer.GetStore() of each mirror: key -> object
  funcs,     \* ChainHandler.funcs of each mirror
  keys,      \* PodCache.keys: pod IP -> pod key
  queue,     \* the tasks waiting for the worker
  delayed,   \* the tasks waiting for their retry delay (time.AfterFunc)
  nextId,    \* history: tasks pushed so far, plus one
  noops,     \* history: 1 once an update has pushed nothing
  hist,      \* history: per task, successes and the last attempt's outcome
  log,       \* history: the stages after notify that ran, in order
  result,    \* the last catalog query and what it returned
  pc         \* where the worker and a querying thread are in the pod index

vars == <<started, stopped, closing, crashed, synced, store, funcs, keys, queue,
          delayed, nextId, noops, hist, log, result, pc>>

ctl == <<started, stopped, closing, crashed, pc>>
ghostEv == <<noops>>
ghostRun == <<hist, log>>

\* --------------------------------------------------------- small helpers
Remove(f, x) == [y \in DOMAIN f \ {x} |-> f[y]]

Put(f, x, v) == [y \in DOMAIN f \cup {x} |-> IF y = x THEN v ELSE f[y]]

Sat(n) == IF n >= 2 THEN 2 ELSE n + 1

\* ------------------------------------------------------ the controller
\* Controller.HasSynced
HasSynced ==
  IF \/ ~synced["svc"]
     \/ ~synced["ep"]
     \/ ~synced["pod"]
  THEN FALSE
  ELSE TRUE

\* NewController: four informers, each with the chain <<notify>>; the pod
\* informer is wrapped by newPodCache, which appends the pod index stage
\* neither the worker nor a query is in the pod index
Idle == [worker |-> "idle", query |-> "idle"]

NewController ==
  /\ started = {}
  /\ stopped = FALSE
  /\ closing = FALSE
  /\ crashed = FALSE
  /\ synced = [k \in Kinds |-> FALSE]
  /\ store = [k \in Kinds |-> <<>>]
  /\ funcs = [k \in Kinds |->
                IF k = "pod" THEN <<[stage |-> "notify", cb |-> 0],
                                    [stage |-> "pod", cb |-> 0]>>
                ELSE <<[stage |-> "notify", cb |-> 0]>>]
  /\ keys = <<>>
  /\ queue = <<>>
  /\ delayed = {}
  /\ nextId = 1
  /\ noops = 0
  /\ hist = <<>>
  /\ log = <<>>
  /\ result = NoCall
  /\ pc = Idle

Init == NewController

\* Controller.Run: the queue consumer and three of the four informers
RunGoroutines == {"queue", "svc", "ep", "pod"}

Run ==
  /\ started = {}
  /\ ~stopped
  /\ ~crashed
  /\ started' = RunGoroutines
  /\ UNCHANGED <<stopped, closing, crashed, synced, store, funcs, keys, queue,
                 delayed, nextId, ghostEv, ghostRun, result, pc>>


\* ---------------------------------------------------------- conversion
\* ControllerOptions.DomainSuffix
DomainSuffix == "cluster.local"

\* hostname = <name>.<namespace>.<suffix>, as its sequence of labels
serviceHostname(name, namespace, domainSuffix) == <<name, namespace, domainSuffix>>

\* convertService: the high-level Service of a Service entry, Nil when the
\* entry does not convert
convertService(svc, domainSuffix) ==
  IF svc.malformed THEN Nil
  ELSE [type |-> "model.Service",
        hostname |-> serviceHostname(svc.name, svc.ns, domainSuffix),
        ports |-> svc.ports]

\* serviceByKey answering with some mirrored Service whatever the key
serviceByKey_any(name, namespace) ==
  IF store["svc"] # <<>>
  THEN <<store["svc"][CHOOSE k \in DOMAIN store["svc"] : TRUE], TRUE>>
  ELSE <<Nil, FALSE>>

\* Controller.serviceByKey: <<item, exists>>
serviceByKey(name, namespace) ==
  IF KeyFunc(name, namespace) \in DOMAIN store["svc"]
  THEN <<store["svc"][KeyFunc(name, namespace)], TRUE>>
  ELSE <<Nil, FALSE>>

\* parseHostname: <<name, namespace, err>>; a hostname has at least its name
\* and its namespace
parseHostname(hostname) ==
  IF Len(hostname) < 2 THEN <<"", "", TRUE>>
  ELSE <<hostname[1], hostname[2], FALSE>>

\* model.PortList.Get: <<port, exists>>, the first port of that name
RECURSIVE PortsGet(_, _)
PortsGet(ports, name) ==
  IF ports = <<>> THEN <<Nil, FALSE>>
  ELSE IF Head(ports).name = name THEN <<Head(ports), TRUE>>
  ELSE PortsGet(Tail(ports), name)

\* model.Tags.SubsetOf
SubsetOf(t, that) ==
  \A k \in DOMAIN t : k \in DOMAIN that /\ that[k] = t[k]

\* model.TagsList.HasSubsetOf: an empty list matches everything
HasSubsetOf(tagsList, that) ==
  IF Len(tagsList) = 0 THEN TRUE
  ELSE \E i \in 1..Len(tagsList) : SubsetOf(tagsList[i], that)

\* PodCache.getPodByIP: <<pod, exists>>
getPodByIP(addr) ==
  IF addr \notin DOMAIN keys THEN <<Nil, FALSE>>
  ELSE IF keys[addr] \notin DOMAIN store["pod"] THEN <<Nil, FALSE>>
  ELSE <<store["pod"][keys[addr]], TRUE>>

\* PodCache.tagsByIP: <<tags, exists>>
tagsByIP(addr) ==
  IF ~getPodByIP(addr)[2] THEN <<<<>>, FALSE>>
  ELSE <<getPodByIP(addr)[1].labels, TRUE>>

NodeRegionLabel == "failure-domain.beta.kubernetes.io/region"
NodeZoneLabel == "failure-domain.beta.kubernetes.io/zone"

\* getPodAZByIP formatting the zone without testing that the label exists
getPodAZByIP_nozonetest(addr) ==
  LET pod == getPodByIP(addr) IN
  IF ~pod[2] THEN <<<<>>, FALSE>>
  ELSE IF pod[1].node \notin DOMAIN store["node"] THEN <<<<>>, FALSE>>
  ELSE LET node == store["node"][pod[1].node] IN
       IF NodeRegionLabel \notin DOMAIN node.labels THEN <<<<>>, FALSE>>
       ELSE <<<<node.labels[NodeRegionLabel], "/",
               IF NodeZoneLabel \in DOMAIN node.labels
               THEN node.labels[NodeZoneLabel] ELSE "">>, TRUE>>

\* Controller.getPodAZByIP: <<az, found>>, az the pieces of "region/zone" and
\* <<>> for the empty string
getPodAZByIP(addr) ==
  LET pod == getPodByIP(addr) IN
  IF ~pod[2] THEN <<<<>>, FALSE>>
  ELSE IF pod[1].node \notin DOMAIN store["node"] THEN <<<<>>, FALSE>>
  ELSE LET node == store["node"][pod[1].node] IN
       IF NodeRegionLabel \notin DOMAIN node.labels THEN <<<<>>, FALSE>>
       ELSE IF NodeZoneLabel \notin DOMAIN node.labels THEN <<<<>>, FALSE>>
       ELSE <<<<node.labels[NodeRegionLabel], "/", node.labels[NodeZoneLabel]>>,
              TRUE>>

\* ------------------------------------------------------ the task queue
Task(id, k, obj, event) == [id |-> id, handler |-> k, obj |-> obj, event |-> event]

\* Queue.Push
Push(q, task) == Append(q, task)

NewHist(k) == [kind |-> k, oks |-> 0, status |-> "none"]

\* the tasks of q2 that were pushed after the tasks counted by n
Pushed(q2, n) == SelectSeq(q2, LAMBDA t : t.id >= n)

\* ------------------------------------------- createInformer's callbacks
\* AddFunc putting its task in front of the queued ones
AddFunc_front(k, obj) ==
  /\ queue' = <<Task(nextId, k, obj, "add")>> \o queue
  /\ nextId' = nextId + 1
  /\ hist' = Append(hist, NewHist(k))

\* AddFunc
AddFunc(k, obj) ==
  /\ queue' = Push(queue, Task(nextId, k, obj, "add"))
  /\ nextId' = nextId + 1
  /\ hist' = Append(hist, NewHist(k))

\* UpdateFunc without the reflect.DeepEqual test
UpdateFunc_always(k, old, cur) ==
  /\ queue' = Push(queue, Task(nextId, k, cur, "update"))
  /\ nextId' = nextId + 1
  /\ hist' = Append(hist, NewHist(k))

\* UpdateFunc: a task unless reflect.DeepEqual(old, cur)
UpdateFunc(k, old, cur) ==
  IF old # cur
  THEN /\ queue' = Push(queue, Task(nextId, k, cur, "update"))
       /\ nextId' = nextId + 1
       /\ hist' = Append(hist, NewHist(k))
  ELSE UNCHANGED <<queue, nextId, hist>>

\* DeleteFunc
DeleteFunc(k, obj) ==
  /\ queue' = Push(queue, Task(nextId, k, obj, "delete"))
  /\ nextId' = nextId + 1
  /\ hist' = Append(hist, NewHist(k))

\* ------------------------------------------------------- the informers
InformerLive(k) ==
  /\ k \in started
  /\ ~stopped
  /\ ~crashed

\* an object appears (initial list, watch or relist)
InformerAdd(k, obj) ==
  /\ InformerLive(k)
  /\ nextId <= MaxEvents
  /\ MetaNamespaceKeyFunc(obj) \notin DOMAIN store[k]
  /\ store' = [store EXCEPT ![k] = Put(@, MetaNamespaceKeyFunc(obj), obj)]
  /\ AddFunc(k, obj)
  /\ UNCHANGED <<ctl, synced, funcs, keys, delayed, noops, log, result>>

\* an object changes, or a periodic resync replays it unchanged; the informer
\* delivers updates and deletes of its objects after its initial list
InformerUpdate(k, cur) ==
  /\ InformerLive(k)
  /\ synced[k]
  /\ MetaNamespaceKeyFunc(cur) \in DOMAIN store[k]
  /\ LET old == store[k][MetaNamespaceKeyFunc(cur)] IN
       /\ old # cur => nextId <= MaxEvents
       /\ noops' = IF old = cur THEN 1 ELSE noops
       /\ store' = [store EXCEPT ![k] = Put(@, MetaNamespaceKeyFunc(cur), cur)]
       /\ UpdateFunc(k, old, cur)
  /\ UNCHANGED <<ctl, synced, funcs, keys, delayed, log, result>>

\* an object disappears: seen by the watch (the object itself is delivered)
\* or missed and found on relist (the placeholder is delivered)
InformerDelete(k, key, unknown) ==
  /\ InformerLive(k)
  /\ synced[k]
  /\ nextId <= MaxEvents
  /\ key \in DOMAIN store[k]
  /\ LET old == store[k][key]
         obj == IF unknown THEN DeletedFinalStateUnknown(old) ELSE old IN
       /\ store' = [store EXCEPT ![k] = Remove(@, key)]
       /\ DeleteFunc(k, obj)
  /\ UNCHANGED <<ctl, synced, funcs, keys, delayed, noops, log, result>>

\* the initial list of mirror k has been merged
InformerSynced(k) ==
  /\ InformerLive(k)
  /\ ~synced[k]
  /\ synced' = [synced EXCEPT ![k] = TRUE]
  /\ UNCHANGED <<ctl, store, funcs, keys, queue, delayed, nextId, ghostEv,
                 ghostRun, result>>


\* -------------------------------------------------- the catalog queries
Range(q) == {q[i] : i \in 1..Len(q)}

\* every port of the service, requested or not
RequestedPorts_all(svc, ports) ==
  [name \in {pt.name : pt \in Range(svc.ports)} |-> PortsGet(svc.ports, name)[1]]

\* Instances, "locate all ports in the actual service": the requested port
\* names the service has, each with its service port
RequestedPorts(svc, ports) ==
  [name \in {n \in Range(ports) : PortsGet(svc.ports, n)[2]} |->
     PortsGet(svc.ports, name)[1]]

ServiceInstance(ip, port, svcPort, svc, tags, az) ==
  [Endpoint |-> [Address |-> ip, Port |-> port, ServicePort |-> svcPort],
   Service |-> svc, Tags |-> tags, AvailabilityZone |-> az]

\* Instances, the loop over the ports of a subset
RECURSIVE InstancesOfPorts(_, _, _, _, _, _)
InstancesOfPorts(eports, ip, svc, svcPorts, tags, az) ==
  IF eports = <<>> THEN <<>>
  ELSE (IF Head(eports).name \in DOMAIN svcPorts
        THEN <<ServiceInstance(ip, Head(eports).port, svcPorts[Head(eports).name],
                               svc, tags, az)>>
        ELSE <<>>)
       \o InstancesOfPorts(Tail(eports), ip, svc, svcPorts, tags, az)

\* Instances, the loop over the addresses of a subset
\* the tag test with the pod required to be indexed
KeepAddress_needsPod(tagsList, ip) ==
  tagsByIP(ip)[2] /\ HasSubsetOf(tagsList, tagsByIP(ip)[1])

\* Instances, the tag test of one address: the lookup's found flag is dropped
KeepAddress(tagsList, ip) ==
  HasSubsetOf(tagsList, tagsByIP(ip)[1])

RECURSIVE InstancesOfAddresses(_, _, _, _, _)
InstancesOfAddresses(addrs, eports, svc, svcPorts, tagsList) ==
  IF addrs = <<>> THEN <<>>
  ELSE LET tags == tagsByIP(Head(addrs))[1]
           rest == InstancesOfAddresses(Tail(addrs), eports, svc, svcPorts, tagsList) IN
       IF ~KeepAddress(tagsList, Head(addrs)) THEN rest
       ELSE InstancesOfPorts(eports, Head(addrs), svc, svcPorts, tags,
                             getPodAZByIP(Head(addrs))[1]) \o rest

\* Instances, the loop over the subsets of the Endpoints entry
RECURSIVE InstancesOfSubsets(_, _, _, _)
InstancesOfSubsets(subsets, svc, svcPorts, tagsList) ==
  IF subsets = <<>> THEN <<>>
  ELSE InstancesOfAddresses(Head(subsets).addresses, Head(subsets).ports, svc,
                            svcPorts, tagsList)
       \o InstancesOfSubsets(Tail(subsets), svc, svcPorts, tagsList)

\* Controller.Instances; nil and the empty slice are both <<>>
Instances(hostname, ports, tagsList) ==
  LET parsed == parseHostname(hostname)
      name == parsed[1]
      namespace == parsed[2] IN
  IF parsed[3] THEN <<>>
  ELSE LET found == serviceByKey(name, namespace) IN
  IF ~found[2] THEN <<>>
  ELSE LET svc == convertService(found[1], DomainSuffix) IN
  IF svc = Nil THEN <<>>
  ELSE LET svcPorts == RequestedPorts(svc, ports)
           items == {key \in DOMAIN store["ep"] :
                       /\ store["ep"][key].name = name
                       /\ store["ep"][key].ns = namespace} IN
  IF items = {} THEN <<>>
  ELSE InstancesOfSubsets(store["ep"][CHOOSE key \in items : TRUE].subsets,
                          svc, svcPorts, tagsList)

\* a caller asks for the instances of a service
CallInstances(hostname, ports, tagsList) ==
  /\ ~crashed
  /\ result' = [op |-> "Instances", hostname |-> hostname, ports |-> ports,
                tagsList |-> tagsList, out |-> Instances(hostname, ports, tagsList)]
  /\ UNCHANGED <<ctl, synced, store, funcs, keys, queue, delayed, nextId,
                 ghostEv, ghostRun>>

\* Controller.GetService: <<svc, exists>>
GetService(hostname) ==
  LET parsed == parseHostname(hostname) IN
  IF parsed[3] THEN <<Nil, FALSE>>
  ELSE LET found == serviceByKey(parsed[1], parsed[2]) IN
       IF ~found[2] THEN <<Nil, FALSE>>
       ELSE LET svc == convertService(found[1], DomainSuffix) IN
            <<svc, svc # Nil>>

\* a caller asks for a service
CallGetService(hostname) ==
  /\ ~crashed
  /\ result' = [op |-> "GetService", hostname |-> hostname,
                out |-> GetService(hostname)]
  /\ UNCHANGED <<ctl, synced, store, funcs, keys, queue, delayed, nextId,
                 ghostEv, ghostRun>>

\* HostInstances, the loop over the ports of a subset
RECURSIVE HostInstancesOfPorts(_, _, _)
HostInstancesOfPorts(eports, ip, svc) ==
  IF eports = <<>> THEN <<>>
  ELSE LET svcPort == PortsGet(svc.ports, Head(eports).name) IN
       (IF svcPort[2]
        THEN <<ServiceInstance(ip, Head(eports).port, svcPort[1], svc,
                               tagsByIP(ip)[1], getPodAZByIP(ip)[1])>>
        ELSE <<>>)
       \o HostInstancesOfPorts(Tail(eports), ip, svc)

\* the address loop of HostInstances without the test of addrs
RECURSIVE HostInstancesOfAddresses_all(_, _, _, _)
HostInstancesOfAddresses_all(addresses, eports, ep, addrs) ==
  IF addresses = <<>> THEN <<>>
  ELSE LET rest == HostInstancesOfAddresses_all(Tail(addresses), eports, ep, addrs)
           item == serviceByKey(ep.name, ep.ns) IN
       IF ~item[2] THEN rest
       ELSE IF convertService(item[1], DomainSuffix) = Nil THEN rest
       ELSE HostInstancesOfPorts(eports, Head(addresses),
                                 convertService(item[1], DomainSuffix)) \o rest

\* HostInstances, the loop over the addresses of a subset of ep; addrs is the
\* set of the addresses the map holds as true
RECURSIVE HostInstancesOfAddresses(_, _, _, _)
HostInstancesOfAddresses(addresses, eports, ep, addrs) ==
  IF addresses = <<>> THEN <<>>
  ELSE LET rest == HostInstancesOfAddresses(Tail(addresses), eports, ep, addrs)
           item == serviceByKey(ep.name, ep.ns) IN
       IF Head(addresses) \notin addrs THEN rest
       ELSE IF ~item[2] THEN rest
       ELSE IF convertService(item[1], DomainSuffix) = Nil THEN rest
       ELSE HostInstancesOfPorts(eports, Head(addresses),
                                 convertService(item[1], DomainSuffix)) \o rest

\* HostInstances, the loop over the subsets of ep
RECURSIVE HostInstancesOfSubsets(_, _, _)
HostInstancesOfSubsets(subsets, ep, addrs) ==
  IF subsets = <<>> THEN <<>>
  ELSE HostInstancesOfAddresses(Head(subsets).addresses, Head(subsets).ports,
                                ep, addrs)
       \o HostInstancesOfSubsets(Tail(subsets), ep, addrs)

\* Controller.HostInstances over list, the Endpoints store's List()
RECURSIVE HostInstances(_, _)
HostInstances(addrs, list) ==
  IF list = <<>> THEN <<>>
  ELSE HostInstancesOfSubsets(Head(list).subsets, Head(list), addrs)
       \o HostInstances(addrs, Tail(list))

\* Store.List(): the items of a store, in an order the store does not fix
List(s) ==
  {[i \in 1..Cardinality(DOMAIN s) |-> s[order[i]]] :
     order \in {o \in [1..Cardinality(DOMAIN s) -> DOMAIN s] :
                  \A i, j \in DOMAIN o : o[i] = o[j] => i = j}}

\* a caller asks for the instances at some addresses
CallHostInstances(addrs) ==
  /\ ~crashed
  /\ \E list \in List(store["ep"]) :
       result' = [op |-> "HostInstances", addrs |-> addrs,
                  out |-> HostInstances(addrs, list)]
  /\ UNCHANGED <<ctl, synced, store, funcs, keys, queue, delayed, nextId,
                 ghostEv, ghostRun>>

uriScheme == "spiffe"

\* the identity with the account and the namespace exchanged
generateServiceAccountID_swapped(sa, ns, domain) ==
  <<uriScheme, "://", domain, "/ns/", sa, "/sa/", ns>>

\* generateServiceAccountID: the pieces of "%v://%v/ns/%v/sa/%v"
generateServiceAccountID(sa, ns, domain) ==
  <<uriScheme, "://", domain, "/ns/", ns, "/sa/", sa>>

\* GetIstioServiceAccounts, the loop over the instances: the keys of saSet
RECURSIVE saSetOf(_)
saSetOf(instances) ==
  IF instances = <<>> THEN {}
  ELSE LET addr == Head(instances).Endpoint.Address
           rest == saSetOf(Tail(instances)) IN
       IF addr \notin DOMAIN keys THEN rest
       ELSE IF keys[addr] \notin DOMAIN store["pod"] THEN rest
       ELSE LET pod == store["pod"][keys[addr]] IN
            {generateServiceAccountID(pod.sa, pod.ns, DomainSuffix)} \cup rest

\* GetIstioServiceAccounts, the arrays the range over saSet can build
saArrays(saSet) ==
  {saArray \in [1..Cardinality(saSet) -> saSet] :
     \A sa \in saSet : \E i \in DOMAIN saArray : saArray[i] = sa}

\* Controller.GetIstioServiceAccounts
GetIstioServiceAccounts(hostname, ports) ==
  saArrays(saSetOf(Instances(hostname, ports, <<>>)))

\* a caller asks for the service accounts of a service
CallGetIstioServiceAccounts(hostname, ports) ==
  /\ ~crashed
  /\ \E saArray \in GetIstioServiceAccounts(hostname, ports) :
       result' = [op |-> "GetIstioServiceAccounts", hostname |-> hostname,
                  ports |-> ports, out |-> saArray]
  /\ UNCHANGED <<ctl, synced, store, funcs, keys, queue, delayed, nextId,
                 ghostEv, ghostRun>>

\* ---------------------------------------------------- the handler chain
\* what one run of a chain has done so far: the pod index, the stages after
\* notify that ran, "ok" / "err" (a stage returned an error) / "panic"
Acc(k, l, status) == [keys |-> k, log |-> l, status |-> status]

Entry(t, stage, cb) ==
  [id |-> t.id, stage |-> stage, cb |-> cb, event |-> t.event, gate |-> HasSynced]

\* notify with its test inverted
notify_inverted(obj, event) ==
  IF HasSynced THEN "err" ELSE "ok"

\* notify without its gate
notify_nogate(obj, event) == "ok"

\* Controller.notify, the first stage of every chain
notify(obj, event) ==
  IF ~HasSynced THEN "err" ELSE "ok"

\* the service stage returning an error after it has called the subscriber
ServiceHandler_err(cb, t, acc) ==
  IF t.obj.type # "Service" THEN [acc EXCEPT !.status = "panic"]
  ELSE IF convertService(t.obj, DomainSuffix) # Nil
       THEN [acc EXCEPT !.log = Append(@, Entry(t, "svc", cb)), !.status = "err"]
       ELSE acc

\* the stage AppendServiceHandler registers; obj.(*v1.Service) panics on any
\* other dynamic type
ServiceHandler(cb, t, acc) ==
  IF t.obj.type # "Service" THEN [acc EXCEPT !.status = "panic"]
  ELSE IF convertService(t.obj, DomainSuffix) # Nil
       THEN [acc EXCEPT !.log = Append(@, Entry(t, "svc", cb))]
       ELSE acc

\* the stage AppendInstanceHandler registers; obj.(*v1.Endpoints) panics on
\* any other dynamic type
InstanceHandler(cb, t, acc) ==
  IF t.obj.type # "Endpoints" THEN [acc EXCEPT !.status = "panic"]
  ELSE LET found == serviceByKey(t.obj.name, t.obj.ns) IN
       IF found[2] /\ convertService(found[1], DomainSuffix) # Nil
       THEN [acc EXCEPT !.log = Append(@, Entry(t, "ep", cb))]
       ELSE acc

\* the stage newPodCache registers: upsert on add/update, remove on delete
PodHandler(t, acc) ==
  LET pod == t.obj
      written == IF t.event = "delete" THEN Remove(acc.keys, pod.ip)
                 ELSE Put(acc.keys, pod.ip, MetaNamespaceKeyFunc(pod)) IN
  IF pod.ip = "" THEN acc
  ELSE [acc EXCEPT !.keys = written, !.log = Append(@, Entry(t, "pod", 0))]

RunStage(f, t, acc) ==
  CASE f.stage = "notify" -> [acc EXCEPT !.status = notify(t.obj, t.event)]
    [] f.stage = "svc" -> ServiceHandler(f.cb, t, acc)
    [] f.stage = "ep" -> InstanceHandler(f.cb, t, acc)
    [] f.stage = "pod" -> PodHandler(t, acc)

\* ChainHandler.Apply: every stage in order, stopping at the first that fails
RECURSIVE Apply(_, _, _, _)
Apply(fs, i, t, acc) ==
  IF i > Len(fs) \/ acc.status # "ok" THEN acc
  ELSE Apply(fs, i + 1, t, RunStage(fs[i], t, acc))

\* ChainHandler.Append
ChainAppend(fs, stage) == Append(fs, [stage |-> stage, cb |-> Len(fs)])

\* the callbacks registered so far
Registered == (Len(funcs["svc"]) - 1) + (Len(funcs["ep"]) - 1)

\* Controller.AppendServiceHandler; subscribers register before Run
\* (ChainHandler.Append is not synchronized with Apply)
AppendServiceHandler ==
  /\ started = {}
  /\ Registered < MaxHandlers
  /\ funcs' = [funcs EXCEPT !["svc"] = ChainAppend(@, "svc")]
  /\ UNCHANGED <<ctl, synced, store, keys, queue, delayed, nextId, ghostEv,
                 ghostRun, result>>

\* Controller.AppendInstanceHandler
AppendInstanceHandler ==
  /\ started = {}
  /\ Registered < MaxHandlers
  /\ funcs' = [funcs EXCEPT !["ep"] = ChainAppend(@, "ep")]
  /\ UNCHANGED <<ctl, synced, store, keys, queue, delayed, nextId, ghostEv,
                 ghostRun, result>>

\* ------------------------------------------------------ the queue worker
\* time.AfterFunc(q.delay, func() { q.Push(item) })
AfterFunc(delay, task) == [task |-> task, delay |-> delay]

\* the consumer going on with the queued tasks after the stop signal
QueueRunning_flush == "queue" \in started

\* Queue.Run's loop runs: started by Controller.Run, the stop signal not observed
QueueRunning == "queue" \in started /\ ~closing

\* Queue.Run, one iteration: pop the head, run its chain, on an error
\* schedule the same task again after the retry delay
RunHead ==
  /\ QueueRunning
  /\ ~crashed
  /\ queue # <<>>
  /\ LET t == Head(queue)
         r == Apply(funcs[t.handler], 1, t, Acc(keys, log, "ok")) IN
       /\ queue' = Tail(queue)
       /\ keys' = r.keys
       /\ log' = r.log
       /\ delayed' = IF r.status = "err"
                     THEN delayed \cup {AfterFunc(RetryDelay, t)}
                     ELSE delayed
       /\ crashed' = (r.status = "panic")
       /\ hist' = [hist EXCEPT ![t.id] =
                     [@ EXCEPT !.oks = IF r.status = "ok" THEN Sat(@) ELSE @,
                               !.status = r.status]]
  /\ UNCHANGED <<started, stopped, closing, synced, store, funcs, nextId,
                 ghostEv, result>>

\* the worker, one iteration in one step
Worker ==
  /\ pc.worker = "idle"
  /\ RunHead
  /\ UNCHANGED pc

\* the retry delay of d has elapsed: the task goes to the back of the queue
Timer(d) ==
  /\ d \in delayed
  /\ ~closing
  /\ ~crashed
  /\ delayed' = delayed \ {d}
  /\ queue' = Push(queue, d.task)
  /\ UNCHANGED <<ctl, synced, store, funcs, keys, nextId, ghostEv, ghostRun,
                 result>>

\* the stop channel is closed
Stop ==
  /\ started # {}
  /\ ~stopped
  /\ ~crashed
  /\ stopped' = TRUE
  /\ UNCHANGED <<started, closing, crashed, synced, store, funcs, keys, queue,
                 delayed, nextId, ghostEv, ghostRun, result, pc>>

\* the queue consumer observes the stop signal
QueueClose ==
  /\ stopped
  /\ ~closing
  /\ ~crashed
  /\ closing' = TRUE
  /\ UNCHANGED <<started, stopped, crashed, synced, store, funcs, keys, queue,
                 delayed, nextId, ghostEv, ghostRun, result, pc>>

\* --------------------------------------------------- the specification
Next ==
  \/ Run
  \/ \E k \in Kinds : InformerSynced(k)
  \/ \E k \in Kinds : \E obj \in Objs(k) : InformerAdd(k, obj)
  \/ \E k \in Kinds : \E cur \in Objs(k) : InformerUpdate(k, cur)
  \/ \E k \in Kinds : \E key \in DOMAIN store[k] :
       \E unknown \in (IF k \in {"svc", "ep"} THEN BOOLEAN ELSE {FALSE}) :
         InformerDelete(k, key, unknown)
  \/ AppendServiceHandler
  \/ AppendInstanceHandler
  \/ Worker
  \/ \E d \in delayed : Timer(d)
  \/ Stop
  \/ QueueClose

Spec == Init /\ [][Next]_vars


\* the same controller when the stop signal never fires, the worker, the
\* retry timers and the initial lists of the started informers being
\* scheduled fairly
LiveNext ==
  \/ Run
  \/ \E k \in Kinds : InformerSynced(k)
  \/ \E k \in Kinds : \E obj \in Objs(k) : InformerAdd(k, obj)
  \/ \E k \in Kinds : \E cur \in Objs(k) : InformerUpdate(k, cur)
  \/ \E k \in Kinds : \E key \in DOMAIN store[k] :
       \E unknown \in (IF k \in {"svc", "ep"} THEN BOOLEAN ELSE {FALSE}) :
         InformerDelete(k, key, unknown)
  \/ AppendServiceHandler
  \/ AppendInstanceHandler
  \/ Worker
  \/ \E d \in delayed : Timer(d)

LiveSpec ==
  /\ Init
  /\ [][LiveNext]_vars
  /\ WF_vars(Worker)
  /\ WF_vars(\E d \in delayed : Timer(d))
  /\ \A k \in Kinds : WF_vars(InformerSynced(k))

\* ------------------------------------------------------------ properties
\* the step of the worker: the only one that shortens the queue
WorkerStep == Len(queue') < Len(queue)

InQueue(id) == \E i \in 1..Len(queue) : queue[i].id = id

InDelay(id) == \E d \in delayed : d.task.id = id

Pending(id) == InQueue(id) \/ InDelay(id)

\* the entries of the log made for task id
LogOf(id) == SelectSeq(log, LAMBDA e : e.id = id)

\* C1: while HasSynced() is false no stage after notify runs (the log of
\* callbacks and index updates and the pod index stay as they are), and the
\* task the worker pops fails at notify and is scheduled for a retry
C1_GateBlocksChain ==
  [][~HasSynced =>
       /\ log' = log
       /\ keys' = keys
       /\ WorkerStep =>
            /\ hist'[Head(queue).id].status = "err"
            /\ AfterFunc(RetryDelay, Head(queue)) \in delayed' \ delayed]_vars

C1_Witness ==
  /\ ~HasSynced
  /\ \E d \in delayed : hist[d.task.id].status = "err" /\ d.task.handler = "pod"
  /\ \E k \in Kinds : Len(funcs[k]) > 1

\* C2: HasSynced() implies that each of the four mirrors has completed its
\* initial list
C2_AllFourMirrorsSynced ==
  HasSynced => \A k \in Kinds : synced[k]

\* C3: when the stop signal never fires, every initial list completes and
\* the worker and the retry timers are scheduled fairly, a task whose attempt
\* failed (it was processed before synchronization and rescheduled)
\* eventually has its chain run to success
C3_RetriedTaskSucceeds ==
  \A id \in 1..MaxEvents :
    (id \in DOMAIN hist /\ hist[id].status = "err")
      ~> (id \in DOMAIN hist /\ hist[id].status = "ok")

\* the change a step makes to the store of mirror k at key, as the
\* notifications it may be delivered as
Deliveries(k, key) ==
  LET before == key \in DOMAIN store[k]
      after == key \in DOMAIN store'[k] IN
  IF ~before /\ after THEN {<<"add", store'[k][key]>>}
  ELSE IF before /\ ~after
       THEN {<<"delete", store[k][key]>>,
             <<"delete", DeletedFinalStateUnknown(store[k][key])>>}
  ELSE IF before /\ after /\ store[k][key] # store'[k][key]
       THEN {<<"update", store'[k][key]>>}
  ELSE {}

AllKeys == {MetaNamespaceKeyFunc(o) : o \in UNION {Objs(k) : k \in Kinds}}

\* C4: a step that changes a mirror (an Add, a Delete, an Update to a
\* different value) pushes exactly one task, with the event kind, the object
\* and the chain of that mirror, at the back of the queue; a step that
\* changes no mirror (an Update to a deeply equal value among them) pushes
\* nothing
C4_OneTaskPerChange ==
  [][IF store' # store
     THEN \E k \in Kinds : \E key \in AllKeys : \E d \in Deliveries(k, key) :
            /\ queue' = Append(queue, Task(nextId, k, d[2], d[1]))
            /\ nextId' = nextId + 1
     ELSE /\ nextId' = nextId
          /\ Pushed(queue', nextId) = <<>>]_vars

C4_Witness ==
  /\ noops > 0
  /\ \E i \in 1..Len(queue) : queue[i].event = "update"
  /\ \E i \in 1..Len(queue) : queue[i].event = "add"

\* C5: a task whose last attempt failed is pending, waiting for a delay of
\* one second whatever the number of its attempts, and out of the queue
\* while it waits, so that the worker's next task is the next one queued
C5_FailedTaskPending ==
  /\ \A id \in DOMAIN hist : hist[id].status = "err" => Pending(id)
  /\ \A d \in delayed :
       /\ d.delay = 1
       /\ hist[d.task.id].status = "err"
       /\ ~InQueue(d.task.id)

C5_Witness ==
  /\ \E d \in delayed : \E id \in DOMAIN hist :
       id > d.task.id /\ hist[id].status = "ok"
  /\ ~stopped

\* C6: a task succeeds at most once, is not pending after its success, and
\* no callback is notified twice for one task
C6_AtMostOneSuccess ==
  /\ \A id \in DOMAIN hist :
       /\ hist[id].oks <= 1
       /\ hist[id].status = "ok" => ~Pending(id)
  /\ \A i, j \in 1..Len(log) :
       (log[i].id = log[j].id /\ log[i].stage = log[j].stage
          /\ log[i].cb = log[j].cb) => i = j

C6_Witness ==
  \E id \in DOMAIN hist :
    /\ hist[id].status = "ok"
    /\ hist[id].kind = "svc"
    /\ Len(LogOf(id)) = 2

\* C7: the worker's first attempts follow the order of the pushes, and a
\* task whose retry delay elapses goes behind every task then queued
C7_FifoRetryAtBack ==
  [][/\ (WorkerStep /\ hist[Head(queue).id].status = "none") =>
          \A j \in 1..(Head(queue).id - 1) : hist[j].status # "none"
     /\ \A d \in delayed \ delayed' : queue' = Append(queue, d.task)]_vars

C7_Witness ==
  \E i, j \in 1..Len(queue) :
    /\ i < j
    /\ queue[i].id > queue[j].id
    /\ hist[queue[j].id].status = "err"
    /\ queue[i].handler # queue[j].handler

\* the callbacks of its own mirror that ran for task id, in order
Callbacks(id) == [i \in 1..Len(LogOf(id)) |-> LogOf(id)[i].cb]

\* C8: a successfully processed Service or Endpoints task has invoked every
\* callback registered on its mirror
C8_EveryCallbackInvoked ==
  \A id \in DOMAIN hist :
    (hist[id].status = "ok" /\ hist[id].kind \in {"svc", "ep"}) =>
      \A cb \in 1..(Len(funcs[hist[id].kind]) - 1) :
        \E i \in 1..Len(log) :
          log[i].id = id /\ log[i].stage = hist[id].kind /\ log[i].cb = cb

\* C9: a successfully processed Service or Endpoints task has invoked the
\* callbacks of its mirror, all of them, once each, in registration order,
\* after the gate, and no stage of another mirror
C9_AllOnceInOrder ==
  \A id \in DOMAIN hist :
    (hist[id].status = "ok" /\ hist[id].kind \in {"svc", "ep"}) =>
      /\ Callbacks(id) = [i \in 1..(Len(funcs[hist[id].kind]) - 1) |-> i]
      /\ \A i \in 1..Len(LogOf(id)) :
           LogOf(id)[i].stage = hist[id].kind /\ LogOf(id)[i].gate


\* ------------------------------------------- the catalog, queried at rest
Key(name) == KeyFunc(name, "default")

\* the mirrors and the pod index a query may find
QSvcStores ==
  {<<>>,
   Key("a") :> Svc(<<Http>>, FALSE),
   Key("a") :> Svc(<<Http, Grpc>>, FALSE),
   Key("a") :> Svc(<<Http, Grpc>>, TRUE),
   (Key("a") :> Svc(<<Http, Grpc>>, FALSE)) @@ (Key("b") :> NamedSvc("b", <<Grpc>>, FALSE))}

QEpStores ==
  {<<>>,
   Key("a") :> Ep(<<[addresses |-> <<"ip1">>, ports |-> <<Http, Grpc>>]>>),
   Key("a") :> Ep(<<[addresses |-> <<"ip1", "ip2">>, ports |-> <<HttpAlt>>],
                    [addresses |-> <<"ip1">>, ports |-> <<Grpc, Admin>>]>>),
   Key("b") :> NamedEp("b", <<[addresses |-> <<"ip2">>, ports |-> <<Grpc>>]>>),
   (Key("a") :> Ep(<<[addresses |-> <<"ip2", "ip3">>, ports |-> <<Grpc, Http>>]>>))
     @@ (Key("b") :> NamedEp("b", <<[addresses |-> <<"ip1">>, ports |-> <<Http, Grpc>>]>>))}

PodP == NamedPod("p", "ip1", [version |-> "v1", env |-> "prod"])
PodQ == [NamedPod("q", "ip2", [version |-> "v2"])
          EXCEPT !.node = "n2", !.sa = "baz"]
PodR == NamedPod("r", "ip2", [version |-> "v1"])

Node(name, labels) == [type |-> "Node", name |-> name, labels |-> labels]

\* the Node mirror as a started node informer would fill it: keyed by the
\* node's name, with both, one or none of the labels
QNodeStores ==
  {<<>>,
   "n1" :> Node("n1", (NodeRegionLabel :> "r1") @@ (NodeZoneLabel :> "z1")),
   "n1" :> Node("n1", NodeRegionLabel :> "r1"),
   ("n1" :> Node("n1", NodeZoneLabel :> "z1"))
     @@ ("n2" :> Node("n2", (NodeRegionLabel :> "r2") @@ (NodeZoneLabel :> "z2")))}

QAddrs == {{}, {"ip1"}, {"ip2", "ip3"}, {"ip1", "ip2", "ip3"}}

\* <<the Pod mirror, the pod index>>: in step, or the index behind the mirror
QPods ==
  {<< <<>>, <<>> >>,
   << Key("p") :> PodP, "ip1" :> Key("p") >>,
   << (Key("p") :> PodP) @@ (Key("q") :> PodQ),
      ("ip1" :> Key("p")) @@ ("ip2" :> Key("q")) >>,
   << Key("q") :> PodQ, ("ip1" :> Key("p")) @@ ("ip2" :> Key("q")) >>,
   << (Key("p") :> PodP) @@ (Key("r") :> PodR),
      ("ip1" :> Key("p")) @@ ("ip2" :> Key("r")) >>}

QHostnames ==
  {serviceHostname("a", "default", DomainSuffix),
   serviceHostname("b", "default", DomainSuffix),
   <<"a">>}

QPorts == {<<>>, <<"http">>, <<"grpc">>, <<"http", "grpc">>, <<"admin">>}

QTagsLists ==
  {<<>>, <<[version |-> "v1"]>>, <<[version |-> "v2"]>>,
   <<[version |-> "v2"], [env |-> "prod"]>>, << <<>> >>}

IPs == {"ip1", "ip2", "ip3"}
EPorts == {Http, Grpc, Admin, HttpAlt}

\* the controller after Run and the initial lists, no event being processed
QInit ==
  /\ started = RunGoroutines
  /\ stopped = FALSE
  /\ closing = FALSE
  /\ crashed = FALSE
  /\ \E s \in QSvcStores : \E e \in QEpStores : \E p \in QPods :
     \E n \in QNodeStores :
       /\ store = [k \in Kinds |->
                     CASE k = "svc" -> s [] k = "ep" -> e [] k = "pod" -> p[1]
                       [] k = "node" -> n]
       /\ keys = p[2]
  /\ synced = [k \in Kinds |-> k \in RunGoroutines \/ store[k] # <<>>]
  /\ funcs = [k \in Kinds |->
                IF k = "pod" THEN <<[stage |-> "notify", cb |-> 0],
                                    [stage |-> "pod", cb |-> 0]>>
                ELSE <<[stage |-> "notify", cb |-> 0]>>]
  /\ queue = <<>>
  /\ delayed = {}
  /\ nextId = 1
  /\ noops = 0
  /\ hist = <<>>
  /\ log = <<>>
  /\ result = NoCall
  /\ pc = Idle

QNext ==
  \/ \E h \in QHostnames : \E ports \in QPorts : \E tagsList \in QTagsLists :
       CallInstances(h, ports, tagsList)
  \/ \E addrs \in QAddrs : CallHostInstances(addrs)
  \/ \E h \in QHostnames : CallGetService(h)
  \/ \E h \in QHostnames : \E ports \in QPorts :
       CallGetIstioServiceAccounts(h, ports)

QSpec == QInit /\ [][QNext]_vars

\* the (address, port) pairs of the Endpoints entry of the queried service
PairsOf(name, namespace) ==
  IF KeyFunc(name, namespace) \notin DOMAIN store["ep"] THEN {}
  ELSE LET subsets == store["ep"][KeyFunc(name, namespace)].subsets IN
       UNION {Range(subsets[i].addresses) \X Range(subsets[i].ports) :
                i \in 1..Len(subsets)}

\* the instances of out at address ip and endpoint port pt
At(out, ip, pt) ==
  {i \in 1..Len(out) :
     /\ out[i].Endpoint.Address = ip
     /\ out[i].Endpoint.Port = pt.port
     /\ out[i].Endpoint.ServicePort.name = pt.name}

\* the tags the pod index holds for ip, none when it holds no pod
TagsOf(ip) ==
  IF ip \in DOMAIN keys /\ keys[ip] \in DOMAIN store["pod"]
  THEN store["pod"][keys[ip]].labels
  ELSE <<>>

PassesFilter(tagsList, ip) ==
  \/ tagsList = <<>>
  \/ \E i \in 1..Len(tagsList) :
       \A k \in DOMAIN tagsList[i] :
         k \in DOMAIN TagsOf(ip) /\ TagsOf(ip)[k] = tagsList[i][k]

\* the named ports of the Service the hostname names, none when the hostname
\* does not parse, the Service is not mirrored or does not convert
ServicePortsOf(hostname) ==
  IF Len(hostname) < 2 THEN {}
  ELSE IF KeyFunc(hostname[1], hostname[2]) \notin DOMAIN store["svc"] THEN {}
  ELSE IF store["svc"][KeyFunc(hostname[1], hostname[2])].malformed THEN {}
  ELSE Range(store["svc"][KeyFunc(hostname[1], hostname[2])].ports)

\* C10: Instances returns exactly one instance for each (address, port) pair
\* of the service's Endpoints entry whose port name is requested and is a
\* named port of the Service and whose address passes the tag filter, with
\* the endpoint's port number and the Service's port of that name, and
\* nothing else
C10_InstancesJoin ==
  result.op = "Instances" =>
    LET h == result.hostname
        out == result.out
        pairs == IF Len(h) < 2 THEN {} ELSE PairsOf(h[1], h[2])
        Wanted(ip, pt) ==
          /\ <<ip, pt>> \in pairs
          /\ pt.name \in Range(result.ports)
          /\ \E sp \in ServicePortsOf(h) : sp.name = pt.name
          /\ PassesFilter(result.tagsList, ip) IN
    /\ \A ip \in IPs : \A pt \in EPorts :
         Cardinality(At(out, ip, pt)) = IF Wanted(ip, pt) THEN 1 ELSE 0
    /\ Len(out) = Cardinality({pr \in pairs : Wanted(pr[1], pr[2])})
    /\ \A i \in 1..Len(out) :
         /\ out[i].Endpoint.ServicePort \in ServicePortsOf(h)
         /\ out[i].Service.hostname = serviceHostname(h[1], h[2], DomainSuffix)

\* the example of the claim: {http:80, grpc:90}, one address exposing both,
\* ports ["http"]: one instance, on port 80
C10_Witness ==
  /\ result.op = "Instances"
  /\ result.ports = <<"http">>
  /\ result.tagsList = <<>>
  /\ store["svc"] = Key("a") :> Svc(<<Http, Grpc>>, FALSE)
  /\ store["ep"] = Key("a") :> Ep(<<[addresses |-> <<"ip1">>, ports |-> <<Http, Grpc>>]>>)
  /\ Len(result.out) = 1
  /\ result.out[1].Endpoint.Port = 80
  /\ result.out[1].Endpoint.Address = "ip1"

\* the addresses of the Endpoints entry of hostname h that expose a port which
\* is requested and is a named port of the Service
Exposed(h, ports) ==
  IF Len(h) < 2 THEN {}
  ELSE {pr[1] : pr \in {q \in PairsOf(h[1], h[2]) :
                          /\ q[2].name \in Range(ports)
                          /\ \E sp \in ServicePortsOf(h) : sp.name = q[2].name}}

Kept(out) == {out[i].Endpoint.Address : i \in 1..Len(out)}

\* C11: an address of the Endpoints entry is kept by Instances iff the filter
\* is empty or one of its tag sets is a subset of the tags the pod index holds
\* for the address; every instance carries those tags; an empty filter keeps
\* an address with no pod index entry, a filter of non-empty tag sets never does
C11_TagFilter ==
  result.op = "Instances" =>
    LET f == result.tagsList
        out == result.out IN
    /\ \A ip \in Exposed(result.hostname, result.ports) :
         /\ ip \in Kept(out) <=>
              \/ f = <<>>
              \/ \E i \in 1..Len(f) :
                   \A k \in DOMAIN f[i] :
                     k \in DOMAIN TagsOf(ip) /\ TagsOf(ip)[k] = f[i][k]
         /\ (ip \notin DOMAIN keys /\ f = <<>>) => ip \in Kept(out)
         /\ (ip \notin DOMAIN keys /\ f # <<>>
               /\ \A i \in 1..Len(f) : DOMAIN f[i] # {}) => ip \notin Kept(out)
    /\ \A i \in 1..Len(out) : out[i].Tags = TagsOf(out[i].Endpoint.Address)

\* {version: v1, env: prod} at ip1 and {version: v2} at ip2, filter
\* {version: v2}: ip2 is kept and ip1 is not
C11_Witness ==
  /\ result.op = "Instances"
  /\ result.tagsList = <<[version |-> "v2"]>>
  /\ TagsOf("ip1") = [version |-> "v1", env |-> "prod"]
  /\ TagsOf("ip2") = [version |-> "v2"]
  /\ {"ip1", "ip2"} \subseteq Exposed(result.hostname, result.ports)
  /\ Kept(result.out) = {"ip2"}

\* the pod index and the Pod mirror hold a pod for ip, the Node mirror holds
\* its node, and the node has the region and the zone label
Located(ip) ==
  /\ ip \in DOMAIN keys
  /\ keys[ip] \in DOMAIN store["pod"]
  /\ store["pod"][keys[ip]].node \in DOMAIN store["node"]
  /\ {NodeRegionLabel, NodeZoneLabel}
       \subseteq DOMAIN store["node"][store["pod"][keys[ip]].node].labels

\* the (address, port) pairs Instances has to return, from the Service and
\* Endpoints mirrors and the pod index alone
InstancePairs(h, ports, tagsList) ==
  IF Len(h) < 2 THEN {}
  ELSE {q \in PairsOf(h[1], h[2]) :
          /\ q[2].name \in Range(ports)
          /\ \E sp \in ServicePortsOf(h) : sp.name = q[2].name
          /\ PassesFilter(tagsList, q[1])}

\* the named ports of the Service that owns the Endpoints entry of key k
OwnerPorts(k) ==
  IF k \notin DOMAIN store["svc"] THEN {}
  ELSE IF store["svc"][k].malformed THEN {}
  ELSE Range(store["svc"][k].ports)

\* the (Endpoints entry, address, endpoint port) triples HostInstances has to
\* return, from the Service and Endpoints mirrors alone
HostTriples(addrs) ==
  {t \in (DOMAIN store["ep"]) \X IPs \X EPorts :
     /\ t[2] \in addrs
     /\ \E i \in 1..Len(store["ep"][t[1]].subsets) :
          /\ t[2] \in Range(store["ep"][t[1]].subsets[i].addresses)
          /\ t[3] \in Range(store["ep"][t[1]].subsets[i].ports)
     /\ \E sp \in OwnerPorts(t[1]) : sp.name = t[3].name}

\* C12: Instances and HostInstances return the same (address, port) pairs
\* whatever the Node mirror holds; the locality of an instance is
\* "region/zone" when the pod of the address is indexed and mirrored, its
\* node is in the Node mirror and has both labels, and is empty otherwise
C12_LocalityFallback ==
  result.op \in {"Instances", "HostInstances"} =>
    LET out == result.out IN
    /\ {<<out[i].Endpoint.Address, out[i].Endpoint.Port>> : i \in 1..Len(out)}
         = IF result.op = "Instances"
           THEN {<<q[1], q[2].port>> :
                   q \in InstancePairs(result.hostname, result.ports, result.tagsList)}
           ELSE {<<t[2], t[3].port>> : t \in HostTriples(result.addrs)}
    /\ \A i \in 1..Len(out) :
         LET ip == out[i].Endpoint.Address IN
         out[i].AvailabilityZone =
           IF Located(ip)
           THEN LET node == store["node"][store["pod"][keys[ip]].node] IN
                <<node.labels[NodeRegionLabel], "/", node.labels[NodeZoneLabel]>>
           ELSE <<>>

\* one result with a pod whose node lacks the region label (ip1), a pod whose
\* node has both labels (ip2) and an address without a pod (ip3)
C12_Witness ==
  /\ result.op = "HostInstances"
  /\ "n1" \in DOMAIN store["node"]
  /\ NodeRegionLabel \notin DOMAIN store["node"]["n1"].labels
  /\ \E i, j, k \in 1..Len(result.out) :
       /\ result.out[i].Endpoint.Address = "ip1"
       /\ getPodByIP("ip1")[2]
       /\ result.out[i].AvailabilityZone = <<>>
       /\ result.out[j].Endpoint.Address = "ip2"
       /\ result.out[j].AvailabilityZone = <<"r2", "/", "z2">>
       /\ result.out[k].Endpoint.Address = "ip3"
       /\ "ip3" \notin DOMAIN keys
       /\ result.out[k].AvailabilityZone = <<>>

\* the lookup of hostname h misses: h does not parse or names no mirrored Service
ServiceMiss(h) ==
  \/ Len(h) < 2
  \/ KeyFunc(h[1], h[2]) \notin DOMAIN store["svc"]

\* C13: a query changes no mirror, neither the pod index nor the queue;
\* GetService answers (nil, false) when the hostname does not parse or names
\* no mirrored Service; Instances answers the empty result in these cases,
\* when the Service has no Endpoints entry and when no requested port name is
\* a port of the Service
C13_MissesAreResults ==
  [][ /\ result'.op \in {"GetService", "Instances"} =>
           /\ store' = store /\ keys' = keys
           /\ queue' = queue /\ delayed' = delayed
      /\ (result'.op = "GetService" /\ ServiceMiss(result'.hostname)) =>
           result'.out = <<Nil, FALSE>>
      /\ (/\ result'.op = "Instances"
          /\ \/ ServiceMiss(result'.hostname)
             \/ KeyFunc(result'.hostname[1], result'.hostname[2])
                  \notin DOMAIN store["ep"]
             \/ \A sp \in ServicePortsOf(result'.hostname) :
                  sp.name \notin Range(result'.ports)) =>
           result'.out = <<>> ]_vars

\* GetService has missed on a Service that is not mirrored while another is
C13_Witness ==
  /\ result.op = "GetService"
  /\ Len(result.hostname) >= 2
  /\ store["svc"] # <<>>
  /\ KeyFunc(result.hostname[1], result.hostname[2]) \notin DOMAIN store["svc"]
  /\ result.out = <<Nil, FALSE>>

\* the instances of out for the Endpoints entry of key k at address ip and
\* endpoint port pt
AtEntry(out, k, ip, pt) ==
  {i \in At(out, ip, pt) :
     out[i].Service.hostname = serviceHostname(k[2], k[1], DomainSuffix)}

\* C14: HostInstances(addrs) returns exactly one instance for each (Endpoints
\* entry, address, endpoint port) triple with the address in addrs, the
\* entry's Service mirrored and the port's name a port of that Service, and
\* nothing else
C14_HostInstancesJoin ==
  result.op = "HostInstances" =>
    LET out == result.out IN
    /\ \A t \in (DOMAIN store["ep"]) \X IPs \X EPorts :
         Cardinality(AtEntry(out, t[1], t[2], t[3]))
           = IF t \in HostTriples(result.addrs) THEN 1 ELSE 0
    /\ Len(out) = Cardinality(HostTriples(result.addrs))
    /\ \A i \in 1..Len(out) :
         /\ out[i].Endpoint.Address \in result.addrs
         /\ \E k \in DOMAIN store["ep"] \cap DOMAIN store["svc"] :
              /\ out[i].Service.hostname = serviceHostname(k[2], k[1], DomainSuffix)
              /\ out[i].Endpoint.ServicePort \in OwnerPorts(k)

\* entries a and b, only a's Service mirrored, addrs = {ip2, ip3}: the two
\* addresses of a with its two ports, nothing for b nor for ip1
C14_Witness ==
  /\ result.op = "HostInstances"
  /\ result.addrs = {"ip2", "ip3"}
  /\ DOMAIN store["ep"] = {Key("a"), Key("b")}
  /\ DOMAIN store["svc"] = {Key("a")}
  /\ "ip1" \in Range(store["ep"][Key("b")].subsets[1].addresses)
  /\ Len(result.out) = 4

\* the pods that back an instance of Instances(h, ports, no filter) and are
\* found through the pod index and the Pod mirror
BackingPods(h, ports) ==
  {store["pod"][keys[q[1]]] :
     q \in {r \in InstancePairs(h, ports, <<>>) :
              r[1] \in DOMAIN keys /\ keys[r[1]] \in DOMAIN store["pod"]}}

\* C15: GetIstioServiceAccounts returns no identity twice, and the identities
\* it returns are spiffe://<domain>/ns/<namespace>/sa/<account> of the pods
\* that back an instance of the service and are indexed and mirrored
C15_ServiceAccounts ==
  result.op = "GetIstioServiceAccounts" =>
    LET out == result.out IN
    /\ \A i, j \in 1..Len(out) : out[i] = out[j] => i = j
    /\ Range(out) =
         {<<"spiffe", "://", "cluster.local", "/ns/", pod.ns, "/sa/", pod.sa>> :
            pod \in BackingPods(result.hostname, result.ports)}

\* ip1 backs two instances and is indexed, ip2 backs one and its pod has
\* another account: two identities
C15_Witness ==
  /\ result.op = "GetIstioServiceAccounts"
  /\ Cardinality(InstancePairs(result.hostname, result.ports, <<>>)) = 3
  /\ BackingPods(result.hostname, result.ports) = {PodP, PodQ}
  /\ Len(result.out) = 2

\* C16: once the stop signal has fired no watch loop delivers an event (no
\* mirror changes, no task is created) and, once the consumer has observed
\* it, no chain is invoked and the queued and the delayed tasks stay where
\* they are; the consumer observes only a signal that has fired
C16_StopAbandonsTasks ==
  [][ /\ stopped =>
           /\ stopped'
           /\ store' = store /\ synced' = synced /\ nextId' = nextId
      /\ closing =>
           /\ closing'
           /\ queue' = queue /\ delayed' = delayed
           /\ log' = log /\ keys' = keys /\ hist' = hist
      /\ closing' => stopped ]_vars

\* the consumer has observed the stop signal with one task queued and one
\* waiting for its retry
C16_Witness ==
  /\ stopped /\ closing
  /\ queue # <<>>
  /\ delayed # {}

\* C17: once Run is called the four mirrors (Service, Endpoints, Pod, Node)
\* eventually report that their initial list is complete, stop never firing
\* and the process staying alive
C17_FourMirrorsEventuallySynced ==
  (started # {}) ~> (crashed \/ \A k \in Kinds : synced[k])

\* C18: in every quiescent state after synchronization (queue empty, no task
\* waiting for its retry, the controller running) the pod index maps address
\* a to pod key p iff the Pod mirror holds a pod of key p with address a
C18_IndexIsViewOfPodMirror ==
  (HasSynced /\ queue = <<>> /\ delayed = {} /\ ~stopped /\ ~crashed) =>
    /\ \A a \in DOMAIN keys :
         keys[a] \in DOMAIN store["pod"] /\ store["pod"][keys[a]].ip = a
    /\ \A p \in DOMAIN store["pod"] :
         store["pod"][p].ip # "" =>
           store["pod"][p].ip \in DOMAIN keys /\ keys[store["pod"][p].ip] = p

\* the tasks a worker can come to run: the queued ones and the ones waiting
\* for their retry
PendingTasks == Range(queue) \cup {d.task : d \in delayed}

\* one run of the chain of task t on the pod index k and the log l
Once(t, k, l) == Apply(funcs[t.handler], 1, t, Acc(k, l, "ok"))

\* C19: in every state, running the chain of a pending task (of any kind and
\* event) twice in a row leaves the pod index as one run leaves it, with the
\* same outcome (the chain writes neither a mirror nor the queue), and a run
\* that fails at the gate changes neither the index nor calls any stage
C19_ChainIdempotent ==
  \A t \in PendingTasks :
    LET r1 == Once(t, keys, log)
        r2 == Once(t, r1.keys, r1.log) IN
    /\ r2.keys = r1.keys
    /\ r2.status = r1.status
    /\ ~(synced["svc"] /\ synced["ep"] /\ synced["pod"]) =>
         r1 = Acc(keys, log, "err")

\* a pod task is at the head of the queue, the gate is open and one run of
\* its chain writes the pod index
C19_Witness ==
  /\ HasSynced
  /\ queue # <<>>
  /\ Head(queue).handler = "pod"
  /\ Once(Head(queue), keys, log).keys # keys
  /\ Once(Head(queue), Once(Head(queue), keys, log).keys, log).keys
       = Once(Head(queue), keys, log).keys

\* ------------------------- the pod index, the worker and a query interleaved
\* the worker has taken the pod index's lock to apply the pod task at the
\* head of the queue; the lock waits for the readers that hold it
PodWriteBegin ==
  /\ QueueRunning
  /\ ~crashed
  /\ HasSynced
  /\ queue # <<>>
  /\ Head(queue).handler = "pod"
  /\ pc.worker = "idle"
  /\ pc.query # "tagsByIP"
  /\ pc' = [pc EXCEPT !.worker = "writing"]
  /\ UNCHANGED <<started, stopped, closing, crashed, synced, store, funcs,
                 keys, queue, delayed, nextId, ghostEv, ghostRun, result>>

\* the write is done and the iteration of the worker ends
PodWriteEnd ==
  /\ pc.worker = "writing"
  /\ RunHead
  /\ pc' = [pc EXCEPT !.worker = "idle"]

\* GetIstioServiceAccounts calls Instances, whose reads of the pod index
\* (tagsByIP, getPodByIP) hold the read lock
ServiceAccountsBegin(hostname, ports) ==
  /\ ~crashed
  /\ pc.query = "idle"
  /\ pc.worker # "writing"
  /\ pc' = [worker |-> pc.worker, query |-> "tagsByIP", hostname |-> hostname,
            ports |-> ports, instances |-> Instances(hostname, ports, <<>>)]
  /\ UNCHANGED <<started, stopped, closing, crashed, synced, store, funcs,
                 keys, queue, delayed, nextId, ghostEv, ghostRun, result>>

\* Instances has returned: with no instance the call returns, with some the
\* loop is at c.pods.keys[si.Endpoint.Address], which takes no lock
ServiceAccountsLoop ==
  /\ ~crashed
  /\ pc.query = "tagsByIP"
  /\ IF pc.instances = <<>>
     THEN /\ pc' = [worker |-> pc.worker, query |-> "idle"]
          /\ result' = [op |-> "GetIstioServiceAccounts",
                        hostname |-> pc.hostname, ports |-> pc.ports,
                        out |-> <<>>]
     ELSE /\ pc' = [pc EXCEPT !.query = "keys"]
          /\ UNCHANGED result
  /\ UNCHANGED <<started, stopped, closing, crashed, synced, store, funcs,
                 keys, queue, delayed, nextId, ghostEv, ghostRun>>

\* the identities of the mirrored pods
MirroredIdentities ==
  {generateServiceAccountID(store["pod"][p].sa, store["pod"][p].ns, DomainSuffix) :
     p \in DOMAIN store["pod"]}

\* the loop reads keys and returns; a read that overlaps the worker's write
\* is a data race: the runtime may stop the process (concurrent map read and
\* map write) or the read may find any key or none
ServiceAccountsRead ==
  /\ ~crashed
  /\ pc.query = "keys"
  /\ pc' = [worker |-> pc.worker, query |-> "idle"]
  /\ IF pc.worker = "writing"
     THEN \/ crashed' = TRUE /\ UNCHANGED result
          \/ /\ \E saSet \in SUBSET MirroredIdentities :
                  \E saArray \in saArrays(saSet) :
                    result' = [op |-> "GetIstioServiceAccounts",
                               hostname |-> pc.hostname, ports |-> pc.ports,
                               out |-> saArray]
             /\ UNCHANGED crashed
     ELSE /\ \E saArray \in saArrays(saSetOf(pc.instances)) :
               result' = [op |-> "GetIstioServiceAccounts",
                          hostname |-> pc.hostname, ports |-> pc.ports,
                          out |-> saArray]
          /\ UNCHANGED crashed
  /\ UNCHANGED <<started, stopped, closing, synced, store, funcs, keys, queue,
                 delayed, nextId, ghostEv, ghostRun>>

\* <<the Pod mirror, the pod index, the pod tasks queued>>: the events the
\* mirror has merged and the worker has not run yet
RacePods ==
  {<< (Key("p") :> PodP) @@ (Key("q") :> PodQ), "ip1" :> Key("p"),
      <<Task(1, "pod", PodQ, "add")>> >>,
   << Key("q") :> PodQ, ("ip1" :> Key("p")) @@ ("ip2" :> Key("q")),
      <<Task(1, "pod", PodP, "delete")>> >>,
   << (Key("p") :> PodP) @@ (Key("r") :> PodR), <<>>,
      <<Task(1, "pod", PodP, "add"), Task(2, "pod", PodR, "add")>> >>}

\* the controller running and synced, pod events waiting for the worker
RaceInit ==
  /\ started = RunGoroutines
  /\ stopped = FALSE
  /\ closing = FALSE
  /\ crashed = FALSE
  /\ synced = [k \in Kinds |-> k \in RunGoroutines]
  /\ \E s \in QSvcStores : \E e \in QEpStores : \E p \in RacePods :
       /\ store = [k \in Kinds |->
                     CASE k = "svc" -> s [] k = "ep" -> e [] k = "pod" -> p[1]
                       [] k = "node" -> <<>>]
       /\ keys = p[2]
       /\ queue = p[3]
       /\ nextId = Len(p[3]) + 1
       /\ hist = [i \in 1..Len(p[3]) |-> NewHist("pod")]
  /\ funcs = [k \in Kinds |->
                IF k = "pod" THEN <<[stage |-> "notify", cb |-> 0],
                                    [stage |-> "pod", cb |-> 0]>>
                ELSE <<[stage |-> "notify", cb |-> 0]>>]
  /\ delayed = {}
  /\ noops = 0
  /\ log = <<>>
  /\ result = NoCall
  /\ pc = Idle

RaceNext ==
  \/ PodWriteBegin
  \/ PodWriteEnd
  \/ \E h \in QHostnames : \E ports \in QPorts : ServiceAccountsBegin(h, ports)
  \/ ServiceAccountsLoop
  \/ ServiceAccountsRead

RaceSpec == RaceInit /\ [][RaceNext]_vars

\* C20: no query reads the pod index (under its lock in tagsByIP and
\* getPodByIP, or the keys map itself) while the worker is writing it
C20_NoReadDuringWrite ==
  ~(pc.worker = "writing" /\ pc.query \in {"tagsByIP", "keys"})

\* C21: no task is fatal to the worker: every run of a chain ends in success
\* or in an error, for the delete of an object whose final state is unknown
\* as for any other task, and the process is never gone because of a handler
C21_NoEventIsFatal ==
  /\ ~crashed
  /\ \A id \in DOMAIN hist : hist[id].status \in {"none", "ok", "err"}

====
